---- MODULE Spec2Model ----
(***************************************************************************)
(* Rap Trainer Pro (src/app.py): the metronome generator                   *)
(* RapTrainerApp.generate_metronome, the session log add_log and the       *)
(* Streamlit controls that call them.                                      *)
(*                                                                         *)
(* A call of generate_metronome is a frame: its arguments, its locals and  *)
(* its position.  Calls are synchronous, so frame i only moves once every  *)
(* earlier frame has returned or raised.  Durations are carried in         *)
(* milliseconds (duration_ms = 1000 * duration_sec) to stay in integers.   *)
(*                                                                         *)
(* audio_track is kept as the list of writes made into the buffer (start   *)
(* index, number of samples, tone, beat index) and not sample by sample:   *)
(* the samples of a click are 0.5*sin(..), of magnitude at most 0.5.       *)
(***************************************************************************)
EXTENDS Integers, Sequences, FiniteSets, TLC

VARIABLES history, bpm, frames

vars == <<history, bpm, frames>>

(* ---------------- bounds of the model ---------------- *)

\* the duration slider is explored from its minimum up to this many seconds
MaxDuration == 12
\* calls of generate_metronome in one session
MaxCalls == 3
\* entries of the session log
MaxHistory == 1

(* ---------------- program constants ---------------- *)

sample_rate == 44100
MinBpm == 60
MaxBpm == 160
MinDuration == 10
DefaultBpm == 85
subdivision == 4
ClickDurMs == 50
PcmScale == 32767
\* peak of one click, in thousandths (0.5 * sin)
ClickPeakMilli == 500

Max(a, b) == IF a >= b THEN a ELSE b
Min(a, b) == IF a <= b THEN a ELSE b

\* Python's int() on a quotient: truncation toward zero (b > 0)
Trunc(a, b) == IF a >= 0 THEN a \div b ELSE -((-a) \div b)

\* int(sample_rate * duration_sec): the length of t and of audio_track
TotalSamples(duration_ms) == Trunc(sample_rate * duration_ms, 1000)

\* tempi at which the double product sample_rate * (60.0 / bpm) lands just
\* below the exact quotient, so that int() gives one sample less
FloatShortBpms == {735, 1470, 2940, 5880, 11025, 11760, 22050, 44100, 88200, 176400}

Abs(x) == IF x < 0 THEN -x ELSE x

SamplesPerBeatRounded(b) == (sample_rate * 60 + b \div 2) \div b

\* int(sample_rate * (60.0 / bpm)), bpm # 0
SamplesPerBeat(b) ==
    LET q == (sample_rate * 60) \div Abs(b)
        m == IF Abs(b) \in FloatShortBpms THEN q - 1 ELSE q
    IN  IF b > 0 THEN m ELSE -m

MakeClickLenLong(dur_ms) == Trunc(sample_rate * dur_ms * 10, 1000)

\* len(make_click(freq, dur)) = int(sample_rate * dur)
MakeClickLen(dur_ms) == Trunc(sample_rate * dur_ms, 1000)

ClickLen == MakeClickLen(ClickDurMs)

ClickKindShifted(beat_count) == IF beat_count % 4 = 1 THEN "high_click" ELSE "low_click"

\* high_click if beat_count % 4 == 0 else low_click
ClickKind(beat_count) == IF beat_count % 4 = 0 THEN "high_click" ELSE "low_click"

ClickFreq(kind) == IF kind = "high_click" THEN 1200 ELSE 800

IsGhostBarThird(ghost_mode, bar_count) == ghost_mode /\ (bar_count % 4 = 3)

\* ghost_mode and (bar_count % 4 == 0)
IsGhostBar(ghost_mode, bar_count) == ghost_mode /\ (bar_count % 4 = 0)

LoopCondInclusive(f) == f.current_sample <= f.total_samples

\* while current_sample < total_samples
LoopCond(f) == f.current_sample < f.total_samples

\* current_sample + len(click) < total_samples
FitsBuffer(f) == f.current_sample + ClickLen < f.total_samples

\* a slice bound of a[x:..] on an array of length n
SliceIndex(x, n) == IF x < 0 THEN Max(x + n, 0) ELSE Min(x, n)

SliceStart(f) == SliceIndex(f.current_sample, f.total_samples)

SliceLen(f) ==
    Max(SliceIndex(f.current_sample + ClickLen, f.total_samples) - SliceStart(f), 0)

\* the write of the whole click at current_sample, whatever the buffer holds
MixUnchecked(f) ==
    [f EXCEPT !.audio_track = Append(@, [offset |-> f.current_sample,
                                         len    |-> ClickLen,
                                         kind   |-> ClickKind(f.beat_count),
                                         beat   |-> f.beat_count])]

\* if current_sample + len(click) < total_samples:
\*     audio_track[current_sample:current_sample+len(click)] += click
\* numpy raises ValueError when the slice and the click differ in length
Mix(f) ==
    IF ~FitsBuffer(f) THEN f
    ELSE IF SliceLen(f) # ClickLen
         THEN [f EXCEPT !.pc = "raised", !.error = "ValueError"]
         ELSE [f EXCEPT !.audio_track = Append(@, [offset |-> SliceStart(f),
                                                   len    |-> SliceLen(f),
                                                   kind   |-> ClickKind(f.beat_count),
                                                   beat   |-> f.beat_count])]

AdvanceSkipGhost(f) ==
    LET n == f.beat_count + 1 IN
    [f EXCEPT !.current_sample = IF IsGhostBar(f.ghost_mode, f.bar_count)
                                 THEN @ ELSE @ + f.samples_per_beat,
              !.beat_count = n,
              !.bar_count = IF n % 4 = 0 THEN @ + 1 ELSE @]

\* current_sample += samples_per_beat; beat_count += 1;
\* if beat_count % 4 == 0: bar_count += 1
Advance(f) ==
    LET n == f.beat_count + 1 IN
    [f EXCEPT !.current_sample = @ + f.samples_per_beat,
              !.beat_count = n,
              !.bar_count = IF n % 4 = 0 THEN @ + 1 ELSE @]

\* one pass of the loop body
LoopBody(f) ==
    LET g == [f EXCEPT !.visited = Append(@, f.current_sample)]
        m == IF IsGhostBar(f.ghost_mode, f.bar_count) THEN g ELSE Mix(g)
    IN  IF m.pc = "raised" THEN m ELSE Advance(m)

\* the frame of a call that has just been entered
Entry(b, d, g) ==
    [bpm |-> b, duration_ms |-> d, ghost_mode |-> g,
     total_samples |-> 0, samples_per_beat |-> 0,
     current_sample |-> 0, beat_count |-> 0, bar_count |-> 0,
     audio_track |-> <<>>, visited |-> <<>>,
     pc |-> "entry", error |-> "none", wrapped |-> FALSE]

Done(f) == f.pc \in {"returned", "raised"}

\* the call whose turn it is
Active(i) == i \in DOMAIN frames /\ ~Done(frames[i]) /\ \A j \in 1..(i-1) : Done(frames[j])

Idle == \A j \in DOMAIN frames : Done(frames[j])

\* the number of writes that cover buffer index x
Cover(track, x) ==
    Cardinality({k \in DOMAIN track : track[k].offset <= x /\ x < track[k].offset + track[k].len})

\* the largest number of writes that cover one index
MaxCover(track) ==
    IF track = <<>> THEN 0
    ELSE LET cs == {Cover(track, track[k].offset) : k \in DOMAIN track}
         IN  CHOOSE c \in cs : \A e \in cs : e <= c

\* a bound, in thousandths, on the magnitude of any sample of the buffer
PeakMilli(track) == MaxCover(track) * ClickPeakMilli

(* ---------------- generate_metronome ---------------- *)

SetupReuseBuffer(i) ==
    /\ Active(i)
    /\ frames[i].pc = "entry"
    /\ LET f == frames[i] IN
       frames' = [frames EXCEPT ![i] =
          IF TotalSamples(f.duration_ms) < 0
          THEN [f EXCEPT !.pc = "raised", !.error = "ValueError"]
          ELSE IF f.bpm = 0
          THEN [f EXCEPT !.pc = "raised", !.error = "ZeroDivisionError"]
          ELSE [f EXCEPT !.total_samples = TotalSamples(f.duration_ms),
                         !.samples_per_beat = SamplesPerBeat(f.bpm),
                         !.audio_track = IF i > 1 THEN frames[i-1].audio_track ELSE <<>>,
                         !.current_sample = 0, !.beat_count = 0, !.bar_count = 1,
                         !.pc = "loop"]]
    /\ UNCHANGED <<history, bpm>>

\* lines 71-88: the buffer, the beat interval and the loop's counters
Setup(i) ==
    /\ Active(i)
    /\ frames[i].pc = "entry"
    /\ LET f == frames[i] IN
       frames' = [frames EXCEPT ![i] =
          IF TotalSamples(f.duration_ms) < 0
          THEN [f EXCEPT !.pc = "raised", !.error = "ValueError"]
          ELSE IF f.bpm = 0
          THEN [f EXCEPT !.pc = "raised", !.error = "ZeroDivisionError"]
          ELSE [f EXCEPT !.total_samples = TotalSamples(f.duration_ms),
                         !.samples_per_beat = SamplesPerBeat(f.bpm),
                         !.audio_track = <<>>,
                         !.current_sample = 0, !.beat_count = 0, !.bar_count = 1,
                         !.pc = "loop"]]
    /\ UNCHANGED <<history, bpm>>

\* lines 90-102: one beat
LoopStep(i) ==
    /\ Active(i)
    /\ frames[i].pc = "loop"
    /\ LoopCond(frames[i])
    /\ frames' = [frames EXCEPT ![i] = LoopBody(frames[i])]
    /\ UNCHANGED <<history, bpm>>

\* lines 104-107: the loop is left, the buffer is converted to int16 and
\* returned as a WAV file.  The conversion of a value outside the int16
\* range is not defined: it may or may not wrap.
Finish(i) ==
    /\ Active(i)
    /\ frames[i].pc = "loop"
    /\ ~LoopCond(frames[i])
    /\ \E w \in BOOLEAN :
          /\ (w => PeakMilli(frames[i].audio_track) > 1000)
          /\ frames' = [frames EXCEPT ![i] = [@ EXCEPT !.pc = "returned", !.wrapped = w]]
    /\ UNCHANGED <<history, bpm>>

CallStep == \E i \in DOMAIN frames : Setup(i) \/ LoopStep(i) \/ Finish(i)

(* ---------------- the arguments explored ---------------- *)

UiBpms == MinBpm..MaxBpm
UiDurations == {1000 * s : s \in MinDuration..MaxDuration}

\* arguments outside the sliders' ranges: <<bpm, duration_ms>>
EdgeTakes ==
    { <<120, 2000>>, <<60, 500>>, <<60, 50>>, <<60, 1>>,
      <<1200, 200>>, <<1201, 200>>, <<3000, 100>>, <<735, 200>>,
      <<2646000, 51>>,
      <<120, 0>>, <<120, -1000>>, <<0, 10000>>, <<0, -1000>>,
      <<-60, 1000>>, <<-2646, 1000>> }

Takes == (UiBpms \X UiDurations) \cup EdgeTakes

Init ==
    /\ history = <<>>
    /\ bpm = DefaultBpm
    /\ \E t \in Takes, g \in BOOLEAN : frames = <<Entry(t[1], t[2], g)>>

Next == CallStep

Spec == Init /\ [][Next]_vars

FairSpec == Spec /\ WF_vars(Next)

(* ---------------- a take rendered with and without Ghost Mode ---------------- *)

InitPair ==
    /\ history = <<>>
    /\ bpm = DefaultBpm
    /\ \E t \in Takes : frames = <<Entry(t[1], t[2], FALSE), Entry(t[1], t[2], TRUE)>>

SpecPair == InitPair /\ [][Next]_vars

(* ---------------- the session: sliders, buttons, log ---------------- *)

\* positions of the bpm slider and of the duration slider that are explored
SliderStops == {MaxBpm}
SessionDurations == {1000 * MinDuration}
\* entries of the focus select box that are explored (first and last)
FocusChoices == {1, 5}

\* (bpm * subdivision) / 60, as a fraction
calculate_sps(b) == [num |-> b * subdivision, den |-> 60]

\* lines 142-145: the slider is moved, the new tempo is stored, the script reruns
SliderChange ==
    /\ Idle
    /\ \E new_bpm \in SliderStops \cup {DefaultBpm} :
          /\ new_bpm # bpm
          /\ bpm' = new_bpm
    /\ UNCHANGED <<history, frames>>

\* lines 154-156: the play button calls generate_metronome(current_bpm, duration, ghost_mode)
GenerateButton ==
    /\ Idle
    /\ Len(frames) < MaxCalls
    /\ \E d \in SessionDurations, g \in BOOLEAN :
          frames' = Append(frames, Entry(bpm, d, g))
    /\ UNCHANGED <<history, bpm>>

\* lines 109-117 and 166-169: a practice entry is appended to the log
add_log ==
    /\ Idle
    /\ Len(history) < MaxHistory
    /\ \E focus \in FocusChoices, d \in SessionDurations :
          history' = Append(history, [Date |-> Len(history) + 1, BPM |-> bpm,
                                      SPS |-> calculate_sps(bpm), Focus |-> focus,
                                      Duration |-> d \div 1000])
    /\ UNCHANGED <<bpm, frames>>

InitSession ==
    /\ history = <<>>
    /\ bpm = DefaultBpm
    /\ frames = <<>>

NextSession == CallStep \/ SliderChange \/ GenerateButton \/ add_log

SpecSession == InitSession /\ [][NextSession]_vars

(* ---------------- the properties ---------------- *)

\* arguments the sliders can produce: bpm 60..160, duration 10..300 s
UiTake(f) ==
    /\ f.bpm \in MinBpm..MaxBpm
    /\ f.duration_ms \in {1000 * sec : sec \in MinDuration..300}

ValidTake(f) == f.bpm > 0 /\ f.duration_ms > 0

\* bars are numbered from 1: bar k holds the beats 4(k-1)..4(k-1)+3
BarOf(b) == (b \div 4) + 1
BeatsOfBar(k) == (4 * (k - 1))..(4 * (k - 1) + 3)

Track(f) == {f.audio_track[j] : j \in DOMAIN f.audio_track}

ClicksInBar(f, k) ==
    Cardinality({j \in DOMAIN f.audio_track : BarOf(f.audio_track[j].beat) = k})

\* the bars that hold a beat the loop visited
ReachedBars(f) == {BarOf(b) : b \in 0..(f.beat_count - 1)}

\* the beats of bar k whose click ends strictly before the end of the buffer
BeatsWithRoom(f, k) ==
    {b \in BeatsOfBar(k) : b * f.samples_per_beat + ClickLen < f.total_samples}

Returned(i) == i \in DOMAIN frames /\ frames[i].pc = "returned"

\* C1 as stated: with ghost_mode, after a take from the sliders' ranges, every
\* bar whose number is a multiple of 4 has no click in the buffer and every
\* other bar the loop reached has exactly 4.
C1_GhostBarsExactlyFour ==
    \A i \in DOMAIN frames :
       LET f == frames[i] IN
       (f.pc = "returned" /\ f.ghost_mode /\ UiTake(f)) =>
          \A k \in ReachedBars(f) :
             ClicksInBar(f, k) = IF k % 4 = 0 THEN 0 ELSE 4

\* C1 amended: with ghost_mode, after a take from the sliders' ranges, every
\* bar whose number is a multiple of 4 has no click in the buffer, and every
\* other bar has one click for each of its beats b with
\* b * samples_per_beat + len(click) < total_samples: 4 clicks when its last
\* beat has that room, fewer in a last bar that the end of the buffer cuts.
C1_GhostBarPolicy ==
    \A i \in DOMAIN frames :
       LET f == frames[i] IN
       (f.pc = "returned" /\ f.ghost_mode /\ UiTake(f)) =>
          \A k \in ReachedBars(f) :
             /\ (k % 4 = 0) => ClicksInBar(f, k) = 0
             /\ (k % 4 # 0) => ClicksInBar(f, k) = Cardinality(BeatsWithRoom(f, k))
             /\ (k % 4 # 0 /\ (4 * k - 1) * f.samples_per_beat + ClickLen < f.total_samples)
                   => ClicksInBar(f, k) = 4

\* a ghost take that went past bar 5: bar 4 is silent, bars 3 and 5 are
\* full, and the last bar is cut short
C1_Witness ==
    \E i \in DOMAIN frames :
       LET f == frames[i] IN
       /\ f.pc = "returned" /\ f.ghost_mode /\ UiTake(f)
       /\ {3, 4, 5} \subseteq ReachedBars(f)
       /\ ClicksInBar(f, 3) = 4 /\ ClicksInBar(f, 4) = 0 /\ ClicksInBar(f, 5) = 4
       /\ \E k \in ReachedBars(f) : k % 4 # 0 /\ ClicksInBar(f, k) < 4

\* C2 as stated: every visited beat that lies inside the buffer and outside a
\* silent bar is mixed in, over min(len(click), total_samples - offset)
\* samples starting at its offset (a click that reaches the end is truncated,
\* not dropped).
C2_TailClipped ==
    \A i \in DOMAIN frames :
       LET f == frames[i] IN
       (f.pc = "returned" /\ ValidTake(f)) =>
          \A j \in DOMAIN f.visited :
             (f.visited[j] < f.total_samples /\ ~(f.ghost_mode /\ BarOf(j - 1) % 4 = 0)) =>
                \E m \in Track(f) :
                   /\ m.offset = f.visited[j]
                   /\ m.len = Min(ClickLen, f.total_samples - f.visited[j])

C4_InvalidRejected ==
    \A i \in DOMAIN frames :
       LET f == frames[i] IN
       (f.bpm <= 0 \/ f.duration_ms <= 0) =>
          /\ f.pc # "returned"
          /\ f.pc # "loop"
          /\ f.visited = <<>>

\* C5: every click in the buffer is the click of the beat at its offset, and
\* it is the 1200 Hz high_click exactly when that beat's index is a multiple of
\* the 4 beats of a bar, the 800 Hz low_click otherwise.
C5_AccentPlacement ==
    \A i \in DOMAIN frames :
       LET f == frames[i] IN
       ValidTake(f) =>
          \A m \in Track(f) :
             /\ m.offset = m.beat * f.samples_per_beat
             /\ (m.kind = "high_click") <=> (m.beat % subdivision = 0)
             /\ (m.kind = "low_click") <=> (m.beat % subdivision # 0)
             /\ ClickFreq(m.kind) = IF m.beat % subdivision = 0 THEN 1200 ELSE 800

\* a finished take with accents on beats 0, 4 and 8 and normal clicks between
C5_Witness ==
    \E i \in DOMAIN frames :
       LET f == frames[i] IN
       /\ f.pc = "returned" /\ ValidTake(f)
       /\ \A b \in 0..8 : \E m \in Track(f) :
             m.beat = b /\ m.kind = (IF b \in {0, 4, 8} THEN "high_click" ELSE "low_click")

\* C6: without ghost_mode and for bpm in 60..160 the k-th visited beat is at
\* offset k * floor(44100*60/bpm), so the offsets start at 0 and never
\* decrease; for bpm = 120 and 2 s the clicks are at 0, 22050, 44100, 66150
\* and are accent, normal, normal, normal.
C6_BeatSpacing ==
    \A i \in DOMAIN frames :
       LET f == frames[i] IN
       (~f.ghost_mode /\ f.bpm \in MinBpm..MaxBpm) =>
          /\ \A j \in DOMAIN f.visited :
                /\ f.visited[j] = (j - 1) * ((sample_rate * 60) \div f.bpm)
                /\ j > 1 => f.visited[j - 1] <= f.visited[j]
          /\ (f.pc = "returned" /\ f.bpm = 120 /\ f.duration_ms = 2000) =>
                /\ [j \in DOMAIN f.audio_track |-> f.audio_track[j].offset]
                      = <<0, 22050, 44100, 66150>>
                /\ [j \in DOMAIN f.audio_track |-> f.audio_track[j].kind]
                      = <<"high_click", "low_click", "low_click", "low_click">>
                /\ f.visited = <<0, 22050, 44100, 66150>>

\* the 120 bpm, 2 s take has returned with its four clicks
C6_Witness ==
    \E i \in DOMAIN frames :
       LET f == frames[i] IN
       /\ f.pc = "returned" /\ ~f.ghost_mode
       /\ f.bpm = 120 /\ f.duration_ms = 2000
       /\ Len(f.audio_track) = 4

\* the tone and place of the clicks of a frame
Clicks(f) == {<<m.offset, m.kind>> : m \in Track(f)}
ClicksOutsideFourthBars(f) == {<<m.offset, m.kind>> : m \in {x \in Track(f) : BarOf(x.beat) % 4 # 0}}

\* C7: for the same valid bpm and duration the ghost take visits the beats
\* and offsets of the plain take, and its clicks are the plain take's clicks
\* without those of the bars whose number is a multiple of 4.
C7_GhostOnlyMutes ==
    (Len(frames) = 2 /\ frames[1].pc = "returned" /\ frames[2].pc = "returned"
        /\ ValidTake(frames[1])) =>
       /\ frames[2].visited = frames[1].visited
       /\ frames[2].beat_count = frames[1].beat_count
       /\ frames[2].current_sample = frames[1].current_sample
       /\ Clicks(frames[2]) = ClicksOutsideFourthBars(frames[1])

\* both takes are done, the plain one has clicks in bar 4 and the ghost one
\* has clicks again in bar 5
C7_Witness ==
    /\ Len(frames) = 2 /\ frames[1].pc = "returned" /\ frames[2].pc = "returned"
    /\ ValidTake(frames[1])
    /\ ~frames[1].ghost_mode /\ frames[2].ghost_mode
    /\ ClicksInBar(frames[1], 4) = 4
    /\ ClicksInBar(frames[2], 4) = 0
    /\ ClicksInBar(frames[2], 5) = 4

SameArgs(f, g) ==
    f.bpm = g.bpm /\ f.duration_ms = g.duration_ms /\ f.ghost_mode = g.ghost_mode

Deterministic ==
    \A i, j \in DOMAIN frames :
       (Done(frames[i]) /\ Done(frames[j]) /\ SameArgs(frames[i], frames[j])) =>
          /\ frames[i].audio_track = frames[j].audio_track
          /\ frames[i].pc = frames[j].pc
          /\ frames[i].wrapped = frames[j].wrapped

\* C8: two finished calls with the same arguments hold the same buffer,
\* whatever calls, log entries and slider moves lie between them, and no step
\* of generate_metronome changes history or bpm.
C8_RenderIndependent ==
    /\ []Deterministic
    /\ [][CallStep => UNCHANGED <<history, bpm>>]_vars

\* the first and the third call had the same arguments, the second had not,
\* the tempo was moved and an entry was logged meanwhile
C8_Witness ==
    /\ Len(frames) = 3 /\ \A i \in 1..3 : frames[i].pc = "returned"
    /\ SameArgs(frames[1], frames[3])
    /\ ~SameArgs(frames[1], frames[2])
    /\ frames[1].bpm # frames[2].bpm
    /\ Len(frames[3].audio_track) > 4
    /\ history # <<>>

Ceil(a, b) == (a + b - 1) \div b

\* the tempi for which samples_per_beat >= 1
TempoInRange(f) == 0 < f.bpm /\ f.bpm <= sample_rate * 60 /\ f.duration_ms > 0

LoopExitsRight ==
    \A i \in DOMAIN frames :
       LET f == frames[i] IN
       TempoInRange(f) =>
          /\ f.pc # "raised"
          /\ \A j \in DOMAIN f.visited : f.visited[j] < f.total_samples
          /\ (f.pc = "returned") =>
                /\ f.current_sample >= f.total_samples
                /\ f.beat_count = Ceil(f.total_samples, f.samples_per_beat)
                /\ Len(f.visited) = f.beat_count
          /\ (f.pc # "entry" /\ f.total_samples <= f.samples_per_beat) =>
                /\ Len(f.audio_track) <= 1
                /\ \A m \in Track(f) : m.offset = 0

\* C9: for 0 < bpm <= 44100*60 and a positive duration the loop ends, it ends
\* with current_sample >= total_samples after ceil(total_samples /
\* samples_per_beat) beats, which all had current_sample < total_samples, it
\* never raises, and a take shorter than one beat has at most one click, at 0.
C9_Termination ==
    /\ []LoopExitsRight
    /\ (\A i \in DOMAIN frames : TempoInRange(frames[i])) ~> (\A i \in DOMAIN frames : Returned(i))

\* a take shorter than one beat has returned with its single click at 0
C9_Witness ==
    \E i \in DOMAIN frames :
       LET f == frames[i] IN
       /\ f.pc = "returned" /\ TempoInRange(f)
       /\ f.total_samples < f.samples_per_beat
       /\ f.beat_count = 1
       /\ Len(f.audio_track) = 1

\* C10: for bpm in 60..160 and duration in 10..300 s a beat is longer than a
\* click, so no buffer index is written twice, every sample stays within
\* [-0.5, 0.5] and its product with 32767 within the int16 range; for any
\* valid take, two writes overlap, or a sample can leave [-1, 1], only with
\* samples_per_beat < len(click), that is bpm > 1200.
C10_NoOverlapInUiRange ==
    \A i \in DOMAIN frames :
       LET f == frames[i] IN
       f.pc # "entry" =>
          /\ UiTake(f) =>
                /\ f.samples_per_beat > ClickLen
                /\ MaxCover(f.audio_track) <= 1
                /\ PeakMilli(f.audio_track) <= 500
                /\ PeakMilli(f.audio_track) * PcmScale <= 32767 * 1000
                /\ -(PeakMilli(f.audio_track) * PcmScale) >= -32768 * 1000
                /\ ~f.wrapped
          /\ (ValidTake(f) /\ (MaxCover(f.audio_track) > 1 \/ f.wrapped)) =>
                (f.samples_per_beat < ClickLen /\ f.bpm > 1200)

\* a take from the sliders' ranges at the fastest tempo has returned with
\* more than 20 clicks, none of them overlapping
C10_Witness ==
    \E i \in DOMAIN frames :
       LET f == frames[i] IN
       /\ f.pc = "returned" /\ UiTake(f) /\ f.bpm = MaxBpm
       /\ Len(f.audio_track) > 20
       /\ MaxCover(f.audio_track) = 1

====
